---- MODULE Spec2Model ----
(***************************************************************************)
(* Black-Scholes pricer, P&L surface and account-equity simulation of      *)
(* src/App.py.                                                             *)
(*                                                                         *)
(* Numbers.  The program computes in double precision; the model computes  *)
(* in fixed point.  Dimensionless quantities (time, volatility, rate, d1,  *)
(* d2, Phi, exp, ln) carry SC units per 1.0.  Money that is an input       *)
(* (spot, strike, quotes, terminal prices) is in cents.  A price returned  *)
(* by the pricer is in cents * SC (micro-dollars), so that                 *)
(* S * Phi(d1) needs no rounding.  NaN and the infinities of numpy are     *)
(* kept as values of their own.                                            *)
(***************************************************************************)
EXTENDS Integers, Sequences, FiniteSets, TLC

\* ------------------------------------------------------------------------
\* Floating point values
\* ------------------------------------------------------------------------

\* Fixed-point resolution of a dimensionless double: 1.0 is SC.
SC == 10^4

\* numpy's inf: every finite value of the model is smaller in magnitude.
Inf == 10^9

\* numpy's nan.
NaN == 2 * 10^9

IsNaN(x) == x = NaN

IsInf(x) == x = Inf \/ x = -Inf

Abs(x) == IF x < 0 THEN -x ELSE x

Sign(x) == IF x < 0 THEN -1 ELSE IF x > 0 THEN 1 ELSE 0

\* Division of doubles, rounded toward zero at the model's resolution.
DivT(a, b) == Sign(a) * Sign(b) * (Abs(a) \div Abs(b))

\* a * b / SC: the product of two dimensionless values.
MulSC(a, b) == DivT(a * b, SC)

RECURSIVE ISqrtIter(_, _, _)
ISqrtIter(n, lo, hi) ==
    IF lo >= hi THEN lo
    ELSE LET mid == (lo + hi + 1) \div 2
         IN  IF mid * mid <= n THEN ISqrtIter(n, mid, hi)
             ELSE ISqrtIter(n, lo, mid - 1)

\* np.sqrt: nan below zero.
Sqrt(x) ==
    IF IsNaN(x) THEN NaN
    ELSE IF x < 0 THEN NaN
    ELSE ISqrtIter(x * SC, 0, 46340)

RECURSIVE ExpSeries(_, _, _, _)
ExpSeries(x, term, n, acc) ==
    IF term = 0 THEN acc
    ELSE LET next == (term * x) \div (n * SC)
         IN  ExpSeries(x, next, n + 1, acc + next)

RECURSIVE ExpPos(_)
ExpPos(x) ==
    IF x > SC THEN LET h == ExpPos(x \div 2) IN (h * h) \div SC
    ELSE ExpSeries(x, SC, 1, SC)

\* numpy.exp.
Exp(x) == IF x >= 0 THEN ExpPos(x) ELSE (SC * SC) \div ExpPos(-x)

RECURSIVE AtanhSeries(_, _, _, _)
AtanhSeries(z2, pow, k, acc) ==
    IF pow = 0 THEN acc
    ELSE AtanhSeries(z2, (pow * z2) \div SC, k + 2, acc + pow \div k)

\* ln of a finite y > 0: 2 * atanh((y - 1) / (y + 1)).
LnPos(y) ==
    LET z == DivT((y - SC) * SC, y + SC)
        a == Abs(z)
    IN  Sign(z) * 2 * AtanhSeries((a * a) \div SC, a, 1, 0)

\* np.log: -inf at zero, nan below zero.
Ln(y) ==
    IF IsNaN(y) THEN NaN
    ELSE IF y = Inf THEN Inf
    ELSE IF y < 0 THEN NaN
    ELSE IF y = 0 THEN -Inf
    ELSE LnPos(y)

\* The standard normal distribution function at 0.0, 0.1, ..., 4.0.
PhiTab ==
    << 5000, 5398, 5793, 6179, 6554, 6915, 7257, 7580, 7881, 8159,
       8413, 8643, 8849, 9032, 9192, 9332, 9452, 9554, 9641, 9713,
       9772, 9821, 9861, 9893, 9918, 9938, 9953, 9965, 9974, 9981,
       9987, 9990, 9993, 9995, 9997, 9998, 9998, 9999, 9999, 10000,
       10000 >>

PhiStep == SC \div 10

PhiPos(x) ==
    IF x >= (Len(PhiTab) - 1) * PhiStep THEN SC
    ELSE LET k == x \div PhiStep
             f == x % PhiStep
         IN  PhiTab[k + 1] + ((PhiTab[k + 2] - PhiTab[k + 1]) * f) \div PhiStep

\* scipy.stats.norm.cdf: 0 at -inf, 1 at inf, nan at nan.
Phi(x) ==
    IF IsNaN(x) THEN NaN
    ELSE IF x < 0 THEN SC - PhiPos(-x)
    ELSE PhiPos(x)

\* a - b of doubles.
FSub(a, b) == IF IsNaN(a) \/ IsNaN(b) THEN NaN ELSE a - b

\* a * b of doubles, a finite and b a value of Phi.
FMul(a, b) == IF IsNaN(a) \/ IsNaN(b) THEN NaN ELSE a * b

\* S / K of line 84 on numpy doubles.
Ratio(S, K) ==
    IF K = 0 THEN (IF S > 0 THEN Inf ELSE IF S < 0 THEN -Inf ELSE NaN)
    ELSE DivT(S * SC, K)

\* num / den of line 84: the sign of a zero den is the sign of sigma.
Quot(num, den, sigma) ==
    IF IsNaN(num) \/ IsNaN(den) THEN NaN
    ELSE IF den = 0
         THEN (IF num = 0 THEN NaN
               ELSE Sign(num) * (IF sigma < 0 THEN -1 ELSE 1) * Inf)
    ELSE IF IsInf(num) THEN Sign(num) * Sign(den) * Inf
    ELSE DivT(num * SC, den)

\* ------------------------------------------------------------------------
\* BlackScholes.calculate_prices
\* ------------------------------------------------------------------------

\* d1 and d2 of lines 84-85.
D1(t, K, S, sigma, r) ==
    LET lnv   == Ln(Ratio(S, K))
        drift == MulSC(r + DivT(MulSC(sigma, sigma), 2), t)
        num   == IF IsNaN(lnv) THEN NaN
                 ELSE IF IsInf(lnv) THEN lnv
                 ELSE lnv + drift
        den   == IF IsNaN(Sqrt(t)) THEN NaN ELSE MulSC(sigma, Sqrt(t))
    IN  Quot(num, den, sigma)

D2(t, K, S, sigma, r) ==
    LET d1  == D1(t, K, S, sigma, r)
        den == IF IsNaN(Sqrt(t)) THEN NaN ELSE MulSC(sigma, Sqrt(t))
    IN  IF IsNaN(d1) \/ IsNaN(den) THEN NaN
        ELSE IF IsInf(d1) THEN d1
        ELSE d1 - den

\* k * exp(-(r * t)) of lines 87-88, in cents.
Discounted(k, r, t) == DivT(k * Exp(-MulSC(r, t)), SC)

\* Lines 77-93.  gstrike is the module-level name strike that lines 87 and
\* 88 read; K (self.strike) enters d1 and d2 only.
calculate_prices(t, K, S, sigma, r, gstrike) ==
    LET d1 == D1(t, K, S, sigma, r)
        d2 == D2(t, K, S, sigma, r)
        kd == Discounted(gstrike, r, t)
    IN  [ call_price |-> FSub(FMul(S, Phi(d1)), FMul(kd, Phi(d2))),
          put_price  |-> FSub(FMul(kd, Phi(IF IsNaN(d2) THEN NaN ELSE -d2)),
                              FMul(S, Phi(IF IsNaN(d1) THEN NaN ELSE -d1))) ]

\* ------------------------------------------------------------------------
\* State
\* ------------------------------------------------------------------------

VARIABLES
    pc,                 \* the statement the script is at
    current_price,      \* line 100
    strike,             \* line 101, the module-level name
    time_to_maturity,   \* line 102
    volatility,         \* line 103
    risk_free_rate,     \* line 104
    spot_range,         \* line 115
    vol_range,          \* line 116
    market_call_quote,  \* line 118
    market_put_quote,   \* line 119
    requested,          \* the number of trades the user asks for
    num_iterations,     \* line 126, and plot_account_equity's parameter
    amount_brought,     \* line 127
    bs_model,           \* line 217, and the functions' parameter
    bs_temp,            \* line 139
    strike_arg,         \* plot_heatmap's parameter strike
    hm_call,            \* the call of plot_heatmap that runs
    call_prices,        \* line 134
    put_prices,         \* line 135
    i,                  \* line 137, counted from 1
    j,                  \* line 138, counted from 1
    pls,                \* line 173
    premium,            \* line 175
    equity,             \* np.cumsum(pls) of line 182
    trials,             \* iterations of the loop of line 176 executed
    invoked,            \* history: the calculate_prices calls that returned
    terminals           \* history: path.simulated_path[-1] of each trial

inputs == << current_price, strike, time_to_maturity, volatility,
             risk_free_rate, spot_range, vol_range, market_call_quote,
             market_put_quote, requested, num_iterations, amount_brought >>

heatmap == << bs_temp, strike_arg, hm_call, call_prices, put_prices, i, j >>

account == << pls, premium, equity, trials, terminals >>

vars == << pc, inputs, bs_model, heatmap, account, invoked >>

\* ------------------------------------------------------------------------
\* Bounds of the model
\* ------------------------------------------------------------------------

\* Largest number of trades requested of the script where the payoffs are
\* kept.
MaxTrials == 6

\* Largest number of trades a caller hands to plot_account_equity.
MaxUnitTrials == 4

\* Longest axis a caller hands to plot_heatmap.
MaxAxis == 2

\* Most calculate_prices calls a caller of the class makes on its own.
MaxCalls == 2

\* ------------------------------------------------------------------------
\* Program constants
\* ------------------------------------------------------------------------

\* np.linspace(..., 10) of lines 115-116.
GridPoints == 10

\* min_value and max_value of line 126.
MinTrades == 5

MaxTrades == 25000

\* value of line 126.
DefaultTrades == 8500

\* ------------------------------------------------------------------------
\* Inputs enumerated
\* ------------------------------------------------------------------------

\* Current asset price, in cents.  Positive: line 110 requires
\* current_price * 0.8 >= 0.1.
PriceInputs == { 10000, 12000 }

\* Strike, in cents.  Line 101 sets no minimum.
StrikeInputs == { 0, 10000, 11000 }

\* Time to maturity.  Line 102 sets no minimum.
TimeInputs == { -SC, 0, SC }

\* Volatility, inside the slider range of lines 112-113.
VolInputs == { 3000 }

RateInputs == { 0, 500 }

\* Market quotes of lines 118-119, in cents.
CallQuoteInputs == { 1410 }

PutQuoteInputs == { 920 }

\* Amount of options, line 127.
AmountInputs == { 100 }

\* Terminal prices the path sampler can return, in cents.
TerminalPrices == { 9000, 13000 }

\* ------------------------------------------------------------------------
\* Objects and arrays
\* ------------------------------------------------------------------------

\* A name not bound to an object yet.
NoObject ==
    [ made |-> FALSE, time_to_maturity |-> 0, strike |-> 0,
      current_price |-> 0, volatility |-> 0, risk_free_rate |-> 0,
      priced |-> FALSE, call_price |-> 0, put_price |-> 0 ]

\* BlackScholes.__init__, lines 61-73: call_price and put_price do not
\* exist yet (priced is FALSE).
BlackScholes(t, K, S, sigma, r) ==
    [ made |-> TRUE, time_to_maturity |-> t, strike |-> K,
      current_price |-> S, volatility |-> sigma, risk_free_rate |-> r,
      priced |-> FALSE, call_price |-> 0, put_price |-> 0 ]

\* The pair calculate_prices returns on obj, line 93.
PricesOf(obj, gstrike) ==
    calculate_prices(obj.time_to_maturity, obj.strike, obj.current_price,
                     obj.volatility, obj.risk_free_rate, gstrike)

\* Mutant: lines 90-91 are missing, the pair is returned and not stored.
CalculatedNotStored(obj, gstrike) == obj

\* obj after calculate_prices: lines 90-91 store the pair.
Calculated(obj, gstrike) ==
    [ obj EXCEPT !.priced = TRUE,
                 !.call_price = PricesOf(obj, gstrike).call_price,
                 !.put_price = PricesOf(obj, gstrike).put_price ]

\* The record of one calculate_prices call and the pair it returned.
Invocation(obj, gstrike) ==
    [ time_to_maturity |-> obj.time_to_maturity, strike |-> obj.strike,
      current_price |-> obj.current_price, volatility |-> obj.volatility,
      risk_free_rate |-> obj.risk_free_rate,
      call_price |-> PricesOf(obj, gstrike).call_price,
      put_price |-> PricesOf(obj, gstrike).put_price ]

\* np.zeros((rows, cols)).
Zeros(rows, cols) ==
    [ shape |-> << rows, cols >>,
      data  |-> [ c \in (1..rows) \X (1..cols) |-> 0 ] ]

\* np.linspace(lo, hi, n), n >= 2.
Linspace(lo, hi, n) ==
    [ k \in 1..n |-> lo + DivT((hi - lo) * (k - 1), n - 1) ]

\* Mutant: the widget of line 126 without its max_value.
number_input_no_max(entered, min_value, max_value) ==
    IF entered < min_value THEN min_value ELSE entered

\* st.number_input with min_value and max_value: the value returned lies
\* between them.
number_input(entered, min_value, max_value) ==
    IF entered < min_value THEN min_value
    ELSE IF entered > max_value THEN max_value
    ELSE entered

Max(a, b) == IF a >= b THEN a ELSE b

RECURSIVE CumSumFrom(_, _, _, _)
CumSumFrom(s, k, acc, out) ==
    IF k > Len(s) THEN out
    ELSE CumSumFrom(s, k + 1, acc + s[k], Append(out, acc + s[k]))

RECURSIVE ExclusiveSumFrom(_, _, _, _)
ExclusiveSumFrom(s, k, acc, out) ==
    IF k > Len(s) THEN out
    ELSE ExclusiveSumFrom(s, k + 1, acc + s[k], Append(out, acc))

\* Mutant: each element is the sum of the payoffs before it.
cumsum_exclusive(s) == ExclusiveSumFrom(s, 1, 0, << >>)

\* Mutant: np.cumsum(pls[1:]), the first trade is left out.
cumsum_skip_first(s) == CumSumFrom(s, 2, 0, << >>)

\* np.cumsum of a list.
cumsum(s) == CumSumFrom(s, 1, 0, << >>)

\* The price of the pricer minus a quote in cents, lines 147-148.
PnL(price, quote) == FSub(price, quote * SC)

\* ------------------------------------------------------------------------
\* The script
\* ------------------------------------------------------------------------

Fresh ==
    /\ bs_model = NoObject
    /\ bs_temp = NoObject
    /\ strike_arg = 0
    /\ hm_call = "none"
    /\ call_prices = Zeros(0, 0)
    /\ put_prices = Zeros(0, 0)
    /\ i = 1
    /\ j = 1
    /\ pls = << >>
    /\ premium = 0
    /\ equity = << >>
    /\ trials = 0
    /\ invoked = {}
    /\ terminals = << >>

\* The script before its first statement, the widgets at their defaults.
Init ==
    /\ pc = "sidebar"
    /\ current_price = 10000
    /\ strike = 10000
    /\ time_to_maturity = SC
    /\ volatility = 3000
    /\ risk_free_rate = 500
    /\ spot_range = << >>
    /\ vol_range = << >>
    /\ market_call_quote = 1410
    /\ market_put_quote = 920
    /\ requested = DefaultTrades
    /\ num_iterations = DefaultTrades
    /\ amount_brought = 100
    /\ Fresh

\* Lines 97-128: the widgets return what the user entered.
Sidebar ==
    /\ pc = "sidebar"
    /\ \E cp \in PriceInputs, k \in StrikeInputs, t \in TimeInputs,
          v \in VolInputs, r \in RateInputs, cq \in CallQuoteInputs,
          pq \in PutQuoteInputs, n \in (MinTrades - 1)..MaxTrials,
          a \in AmountInputs :
          /\ current_price' = cp
          /\ strike' = k
          /\ time_to_maturity' = t
          /\ volatility' = v
          /\ risk_free_rate' = r
          /\ spot_range' = Linspace(DivT(cp * 8, 10), DivT(cp * 12, 10),
                                    GridPoints)
          /\ vol_range' = Linspace(DivT(v * 5, 10), DivT(v * 15, 10),
                                   GridPoints)
          /\ market_call_quote' = cq
          /\ market_put_quote' = pq
          /\ requested' = n
          /\ num_iterations' = number_input(n, MinTrades, MaxTrades)
          /\ amount_brought' = a
    /\ pc' = "construct"
    /\ UNCHANGED << bs_model, heatmap, account, invoked >>

\* Line 217.
MainConstruct ==
    /\ pc = "construct"
    /\ bs_model' = BlackScholes(time_to_maturity, strike, current_price,
                                volatility, risk_free_rate)
    /\ pc' = "calculate"
    /\ UNCHANGED << inputs, heatmap, account, invoked >>

\* Line 218 when S / K of line 84 divides a Python float by zero: the call
\* raises ZeroDivisionError at its first operation and the run ends.
MainRaise ==
    /\ pc = "calculate"
    /\ bs_model.strike = 0
    /\ pc' = "error"
    /\ UNCHANGED << inputs, bs_model, heatmap, account, invoked >>

\* Line 218.
MainCalculate ==
    /\ pc = "calculate"
    /\ bs_model.strike # 0
    /\ bs_model' = Calculated(bs_model, strike)
    /\ invoked' = invoked \cup { Invocation(bs_model, strike) }
    /\ pc' = "heatmap"
    /\ UNCHANGED << inputs, heatmap, account >>

\* Mutant: the two lengths of lines 134-135 in the other order.
SurfaceZerosSwapped(vols, spots) == Zeros(Len(spots), Len(vols))

\* The array of lines 134 and 135 for the two axes.
SurfaceZeros(vols, spots) == Zeros(Len(vols), Len(spots))

\* Lines 273 and 278 call plot_heatmap; lines 134-135.
HeatmapEnter ==
    /\ pc = "heatmap"
    /\ hm_call' = IF hm_call = "none" THEN "line273" ELSE "line278"
    /\ strike_arg' = strike
    /\ call_prices' = SurfaceZeros(vol_range, spot_range)
    /\ put_prices' = SurfaceZeros(vol_range, spot_range)
    /\ i' = 1
    /\ j' = 1
    /\ bs_temp' = NoObject
    /\ pc' = "cell"
    /\ UNCHANGED << inputs, bs_model, account, invoked >>

\* The loops of lines 137-138 have a cell left.
InLoop == i <= Len(vol_range) /\ j <= Len(spot_range)

\* Lines 139-145.
HeatmapConstruct ==
    /\ pc = "cell"
    /\ InLoop
    /\ bs_temp' = BlackScholes(bs_model.time_to_maturity, strike_arg,
                               spot_range[j], vol_range[i],
                               bs_model.risk_free_rate)
    /\ pc' = "cell_calculate"
    /\ UNCHANGED << inputs, bs_model, strike_arg, hm_call, call_prices,
                    put_prices, i, j, account, invoked >>

\* Line 146.
HeatmapCalculate ==
    /\ pc = "cell_calculate"
    /\ bs_temp' = Calculated(bs_temp, strike)
    /\ invoked' = invoked \cup { Invocation(bs_temp, strike) }
    /\ pc' = "cell_store"
    /\ UNCHANGED << inputs, bs_model, strike_arg, hm_call, call_prices,
                    put_prices, i, j, account >>

\* Mutant: lines 147-148 write cell [j, i].
HeatmapStoreTransposed ==
    /\ pc = "cell_store"
    /\ call_prices' =
          [ call_prices EXCEPT !.data[<< j, i >>] =
                PnL(bs_temp.call_price, market_call_quote) ]
    /\ put_prices' =
          [ put_prices EXCEPT !.data[<< j, i >>] =
                PnL(bs_temp.put_price, market_put_quote) ]
    /\ IF j < Len(spot_range)
       THEN i' = i /\ j' = j + 1
       ELSE i' = i + 1 /\ j' = 1
    /\ pc' = "cell"
    /\ UNCHANGED << inputs, bs_model, bs_temp, strike_arg, hm_call,
                    account, invoked >>

\* Lines 147-148, and the step of the loops.
HeatmapStore ==
    /\ pc = "cell_store"
    /\ call_prices' =
          [ call_prices EXCEPT !.data[<< i, j >>] =
                PnL(bs_temp.call_price, market_call_quote) ]
    /\ put_prices' =
          [ put_prices EXCEPT !.data[<< i, j >>] =
                PnL(bs_temp.put_price, market_put_quote) ]
    /\ IF j < Len(spot_range)
       THEN i' = i /\ j' = j + 1
       ELSE i' = i + 1 /\ j' = 1
    /\ pc' = "cell"
    /\ UNCHANGED << inputs, bs_model, bs_temp, strike_arg, hm_call,
                    account, invoked >>

\* Lines 150-169: the figures are drawn from the two arrays and returned
\* to the caller; the script goes on to line 278, then to line 294.
HeatmapReturn ==
    /\ pc = "cell"
    /\ ~InLoop
    /\ pc' = IF hm_call = "line273" THEN "heatmap"
             ELSE IF hm_call = "line278" THEN "equity"
             ELSE "done"
    /\ UNCHANGED << inputs, bs_model, heatmap, account, invoked >>

\* Line 294 calls plot_account_equity; lines 173-175.
EquityEnter ==
    /\ pc = "equity"
    /\ pls' = << >>
    /\ terminals' = << >>
    /\ trials' = 0
    /\ equity' = << >>
    /\ bs_model' = Calculated(bs_model, strike)
    /\ invoked' = invoked \cup { Invocation(bs_model, strike) }
    /\ premium' = market_call_quote * amount_brought
    /\ pc' = "trial"
    /\ UNCHANGED << inputs, heatmap >>

\* Mutant: line 178 with the strike as the reference level.
PayoffAgainstStrike(terminal) ==
    Max(terminal - strike, 0) * amount_brought - premium

\* The payoff of line 178 for a terminal price.
Payoff(terminal) ==
    Max(terminal - current_price, 0) * amount_brought - premium

\* Lines 177-178: one pass of the loop of line 176.  The path is sampled by
\* qfin from a random source; its last value is any terminal price.
EquityTrial ==
    /\ pc = "trial"
    /\ trials < num_iterations
    /\ \E terminal \in TerminalPrices :
          /\ terminals' = Append(terminals, terminal)
          /\ pls' = Append(pls, Payoff(terminal))
    /\ trials' = trials + 1
    /\ UNCHANGED << pc, inputs, bs_model, heatmap, premium, equity, invoked >>

\* Lines 180-188: the loop is over, the cumulative sum is plotted.
EquityReturn ==
    /\ pc = "trial"
    /\ trials >= num_iterations
    /\ equity' = cumsum(pls)
    /\ pc' = "done"
    /\ UNCHANGED << inputs, bs_model, heatmap, pls, premium, trials,
                    terminals, invoked >>

\* Streamlit runs the script again, from its first line, after an input
\* changed or an exception ended the run.
Rerun ==
    /\ pc \in { "done", "error" }
    /\ pc' = "sidebar"
    /\ bs_model' = NoObject
    /\ bs_temp' = NoObject
    /\ strike_arg' = 0
    /\ hm_call' = "none"
    /\ call_prices' = Zeros(0, 0)
    /\ put_prices' = Zeros(0, 0)
    /\ i' = 1
    /\ j' = 1
    /\ pls' = << >>
    /\ premium' = 0
    /\ equity' = << >>
    /\ trials' = 0
    /\ invoked' = {}
    /\ terminals' = << >>
    /\ UNCHANGED inputs

Next ==
    \/ Sidebar
    \/ MainConstruct
    \/ MainRaise
    \/ MainCalculate
    \/ HeatmapEnter
    \/ HeatmapConstruct
    \/ HeatmapCalculate
    \/ HeatmapStore
    \/ HeatmapReturn
    \/ EquityEnter
    \/ EquityTrial
    \/ EquityReturn
    \/ Rerun

\* The script as Streamlit runs it.
Spec == Init /\ [][Next]_vars

\* ------------------------------------------------------------------------
\* The components called as functions
\* ------------------------------------------------------------------------

\* Strikes a caller uses, in cents.
UnitStrikes == { 10000, 11000 }

\* Spot prices and volatilities a caller puts on the axes.
AxisSpots == { 8000, 10000, 12000 }

AxisVols == { 1500, 3000, 4500 }

\* The ascending sequences over S of at most MaxAxis values.
Axes(S) ==
    { s \in UNION { [ 1..n -> S ] : n \in 0..MaxAxis } :
        \A a, b \in DOMAIN s : a < b => s[a] < s[b] }

\* A module whose names hold valid inputs, no object made yet.
InitUnit ==
    /\ pc = "idle"
    /\ current_price \in PriceInputs
    /\ strike \in UnitStrikes
    /\ time_to_maturity = SC
    /\ volatility = 3000
    /\ risk_free_rate = 500
    /\ spot_range = << >>
    /\ vol_range = << >>
    /\ market_call_quote = 1410
    /\ market_put_quote = 920
    /\ requested = 0
    /\ num_iterations = 0
    /\ amount_brought = 100
    /\ Fresh

\* A caller makes a BlackScholes object, lines 61-73.
UnitConstruct ==
    /\ pc = "idle"
    /\ ~bs_model.made
    /\ \E K \in UnitStrikes, S \in PriceInputs, r \in RateInputs :
          bs_model' = BlackScholes(SC, K, S, 3000, r)
    /\ UNCHANGED << pc, inputs, heatmap, account, invoked >>

\* A caller calls calculate_prices on the object, lines 77-93.
UnitCalculate ==
    /\ pc = "idle"
    /\ bs_model.made
    /\ Cardinality(invoked) < MaxCalls
    /\ bs_model' = Calculated(bs_model, strike)
    /\ invoked' = invoked \cup { Invocation(bs_model, strike) }
    /\ UNCHANGED << pc, inputs, heatmap, account >>

\* The module-level name strike of line 101 gets another value.
UnitSetStrike ==
    /\ pc = "idle"
    /\ \E k \in UnitStrikes \ { strike } : strike' = k
    /\ UNCHANGED << pc, current_price, time_to_maturity, volatility,
                    risk_free_rate, spot_range, vol_range, market_call_quote,
                    market_put_quote, requested, num_iterations,
                    amount_brought, bs_model, heatmap, account, invoked >>

\* A caller calls plot_heatmap(bs_model, spot_range, vol_range, strike) with
\* axes and a strike of its own; lines 134-135.
UnitCallHeatmap ==
    /\ pc = "idle"
    /\ bs_model.made
    /\ invoked = {}
    /\ \E spots \in Axes(AxisSpots), vols \in Axes(AxisVols),
          k \in UnitStrikes :
          /\ spot_range' = spots
          /\ vol_range' = vols
          /\ strike_arg' = k
          /\ call_prices' = SurfaceZeros(vols, spots)
          /\ put_prices' = SurfaceZeros(vols, spots)
    /\ hm_call' = "caller"
    /\ i' = 1
    /\ j' = 1
    /\ bs_temp' = NoObject
    /\ pc' = "cell"
    /\ UNCHANGED << current_price, strike, time_to_maturity, volatility,
                    risk_free_rate, market_call_quote, market_put_quote,
                    requested, num_iterations, amount_brought, bs_model,
                    account, invoked >>

\* A caller calls plot_account_equity(bs_model, num_iterations) with a
\* number of its own.
UnitCallEquity ==
    /\ pc = "idle"
    /\ bs_model.made
    /\ invoked = {}
    /\ \E n \in 0..MaxUnitTrials :
          /\ requested' = n
          /\ num_iterations' = n
    /\ pc' = "equity"
    /\ UNCHANGED << current_price, strike, time_to_maturity, volatility,
                    risk_free_rate, spot_range, vol_range, market_call_quote,
                    market_put_quote, amount_brought, bs_model, heatmap,
                    account, invoked >>

NextUnit ==
    \/ UnitConstruct
    \/ UnitCalculate
    \/ UnitSetStrike
    \/ UnitCallHeatmap
    \/ HeatmapConstruct
    \/ HeatmapCalculate
    \/ HeatmapStore
    \/ HeatmapReturn
    \/ UnitCallEquity
    \/ EquityEnter
    \/ EquityTrial
    \/ EquityReturn

\* The class and the two functions under a caller.
SpecUnit == InitUnit /\ [][NextUnit]_vars

\* ------------------------------------------------------------------------
\* The number of trades, from the widget to the loop
\* ------------------------------------------------------------------------

\* Numbers of trades a user asks for.
TradeRequests == { MinTrades, DefaultTrades, MaxTrades, MaxTrades + 1,
                   2 * MaxTrades }

\* Line 126.
CapSidebar ==
    /\ pc = "sidebar"
    /\ \E n \in TradeRequests :
          /\ requested' = n
          /\ num_iterations' = number_input(n, MinTrades, MaxTrades)
    /\ pc' = "count"
    /\ UNCHANGED << current_price, strike, time_to_maturity, volatility,
                    risk_free_rate, spot_range, vol_range, market_call_quote,
                    market_put_quote, amount_brought, bs_model, heatmap,
                    account, invoked >>

\* One pass of the loop of lines 176-178, projected on the number of
\* passes: the payoffs of 25000 trades are left out of the state.
CapTrial ==
    /\ pc = "count"
    /\ trials < num_iterations
    /\ trials' = trials + 1
    /\ UNCHANGED << pc, inputs, bs_model, heatmap, pls, premium, equity,
                    terminals, invoked >>

\* The loop of line 176 is over.
CapReturn ==
    /\ pc = "count"
    /\ trials >= num_iterations
    /\ pc' = "done"
    /\ UNCHANGED << inputs, bs_model, heatmap, account, invoked >>

NextCap ==
    \/ CapSidebar
    \/ CapTrial
    \/ CapReturn
    \/ Rerun

\* The script projected on the number of trades.
SpecCap == Init /\ [][NextCap]_vars

\* ------------------------------------------------------------------------
\* Properties
\* ------------------------------------------------------------------------

\* plot_heatmap has run its loops to the end and its arrays are still there.
SurfaceBuilt ==
    /\ hm_call # "none"
    /\ \/ pc \in { "cell", "heatmap", "equity" }
       \/ pc = "done" /\ hm_call = "caller"
    /\ ~InLoop

\* plot_account_equity has returned.
EquityReturned == pc = "done" /\ hm_call # "caller"

\* The price pair of the pricer for the base contract moved to one spot
\* price and one volatility.
CellPrices(spot, vol) ==
    calculate_prices(bs_model.time_to_maturity, bs_model.strike, spot, vol,
                     bs_model.risk_free_rate, strike)

\* C1: in the surface plot_heatmap built, the cell in row a and column b is
\* the pricer's call (put) price at spot_range[b] and vol_range[a], with the
\* base contract's strike, time and rate, minus the market call (put) quote:
\* rows follow vol_range and columns follow spot_range.
C1_SurfaceCells ==
    SurfaceBuilt =>
        \A a \in 1..Len(vol_range), b \in 1..Len(spot_range) :
            /\ call_prices.data[<< a, b >>] =
                  PnL(CellPrices(spot_range[b], vol_range[a]).call_price,
                      market_call_quote)
            /\ put_prices.data[<< a, b >>] =
                  PnL(CellPrices(spot_range[b], vol_range[a]).put_price,
                      market_put_quote)

\* A surface of finite prices is built on the 10 x 10 grid and its cell
\* (1, 2) differs from its cell (2, 1).
C1_Witness ==
    /\ SurfaceBuilt
    /\ pc = "equity"
    /\ time_to_maturity > 0
    /\ Len(vol_range) = GridPoints
    /\ Len(spot_range) = GridPoints
    /\ ~IsNaN(call_prices.data[<< 1, 2 >>])
    /\ call_prices.data[<< 1, 2 >>] # call_prices.data[<< 2, 1 >>]
    /\ put_prices.data[<< 1, 2 >>] # put_prices.data[<< 2, 1 >>]

\* arr is an array of the shape (rows, cols).
HasShape(arr, rows, cols) ==
    /\ arr.shape = << rows, cols >>
    /\ DOMAIN arr.data = (1..rows) \X (1..cols)

RECURSIVE SumFirst(_, _)
\* The sum of the first k elements of s.
SumFirst(s, k) == IF k = 0 THEN 0 ELSE SumFirst(s, k - 1) + s[k]

\* C3: when plot_account_equity has returned for num_iterations = N >= 0,
\* the equity sequence has N elements, its k-th element is the sum of the
\* first k payoffs in trial order, and its last element is the sum of all N
\* payoffs; for N = 0 it is empty and no error was raised.
C3_EquityIsRunningSum ==
    /\ pc # "error"
    /\ EquityReturned =>
          /\ Len(pls) = num_iterations
          /\ Len(equity) = num_iterations
          /\ \A k \in 1..Len(equity) : equity[k] = SumFirst(pls, k)
          /\ num_iterations > 0 =>
                equity[num_iterations] = SumFirst(pls, Len(pls))
          /\ num_iterations = 0 => equity = << >>

\* A run of three trials with a loss, then a gain, has returned.
C3_Witness ==
    /\ EquityReturned
    /\ num_iterations = 3
    /\ Len(equity) = 3
    /\ pls[1] < 0
    /\ pls[2] > 0
    /\ equity[3] # equity[2]

\* C4: the payoff appended in each trial is
\* max(terminal_price - current_price, 0) * position_size - premium, with
\* premium = market_call_quote * position_size fixed for the run,
\* terminal_price the last value of the trial's path, and current_price,
\* not the strike, as the reference level.
C4_Payoff ==
    /\ pc = "trial" => premium = market_call_quote * amount_brought
    /\ Len(pls) = Len(terminals)
    /\ \A k \in 1..Len(pls) :
          pls[k] = Max(terminals[k] - current_price, 0) * amount_brought
                   - market_call_quote * amount_brought

\* A trial ended above both the current price and a strike that differs
\* from it.
C4_Witness ==
    /\ pc = "trial"
    /\ Len(pls) >= 2
    /\ strike # current_price
    /\ bs_model.strike # current_price
    /\ terminals[1] > current_price
    /\ terminals[1] > strike
    /\ terminals[2] < current_price

\* Two calls were made on the same five parameters.
SameParameters(a, b) ==
    /\ a.time_to_maturity = b.time_to_maturity
    /\ a.strike = b.strike
    /\ a.current_price = b.current_price
    /\ a.volatility = b.volatility
    /\ a.risk_free_rate = b.risk_free_rate

\* C5: any two calculate_prices calls on objects that carry the same five
\* parameters return the same (call, put) pair, whatever the module-level
\* strike is.
C5_ReferentiallyTransparent ==
    \A a, b \in invoked :
        SameParameters(a, b) =>
            a.call_price = b.call_price /\ a.put_price = b.put_price

\* The parameters of a call are all valid.
ValidParameters(c) ==
    /\ c.time_to_maturity > 0
    /\ c.strike > 0
    /\ c.current_price > 0
    /\ c.volatility > 0

\* C6: put-call parity: every calculate_prices call on valid parameters
\* returns call - put = S - K * exp(-r * t), K the strike of the object.
C6_PutCallParity ==
    \A c \in invoked :
        ValidParameters(c) =>
            c.call_price - c.put_price =
                c.current_price * SC
                - Discounted(c.strike, c.risk_free_rate, c.time_to_maturity)
                  * SC

\* C7: no calculate_prices call, of the script or of a surface cell, runs
\* to its end with a time to maturity, strike, current price or volatility
\* that is <= 0, and no simulation trial runs on such input.
C7_InvalidRejectedFirst ==
    /\ \A c \in invoked : ValidParameters(c)
    /\ trials > 0 =>
          /\ time_to_maturity > 0
          /\ strike > 0
          /\ current_price > 0
          /\ volatility > 0

\* C8: the loop of trials never runs more than 25000 passes in one run: a
\* number of trades above the cap does not reach it.
C8_TrialsCapped ==
    /\ trials <= MaxTrades
    /\ pc \in { "count", "trial", "done" } => num_iterations <= MaxTrades

\* The user asked for more than the cap and the loop ended after 25000
\* passes.
C8_Witness ==
    /\ pc = "done"
    /\ requested > MaxTrades
    /\ trials = MaxTrades

\* s without its k-th element.
Remove(s, k) == SubSeq(s, 1, k - 1) \o SubSeq(s, k + 1, Len(s))

RECURSIVE Orderings(_)
\* Every ordering of the elements of s.
Orderings(s) ==
    IF Len(s) = 0 THEN { << >> }
    ELSE UNION { { << s[k] >> \o rest : rest \in Orderings(Remove(s, k)) } :
                 k \in 1..Len(s) }

PairIsCurrent(obj) ==
    /\ obj.call_price = PricesOf(obj, strike).call_price
    /\ obj.put_price = PricesOf(obj, strike).put_price

\* C10: when lines 147-148 read call_price and put_price of bs_temp,
\* calculate_prices has run on that object, and the pair stored on an
\* object is always the pair of the parameters the object has now.
C10_NoStaleRead ==
    /\ pc = "cell_store" => bs_temp.priced /\ PairIsCurrent(bs_temp)
    /\ bs_temp.priced => PairIsCurrent(bs_temp)
    /\ bs_model.priced => PairIsCurrent(bs_model)

\* Lines 147-148 are about to read the pair of the cell in row 2, column 3.
C10_Witness ==
    /\ pc = "cell_store"
    /\ i = 2
    /\ j = 3
    /\ bs_temp.priced
    /\ bs_temp.current_price = spot_range[3]
    /\ bs_temp.volatility = vol_range[2]
    /\ ~IsNaN(bs_temp.call_price)

====
